---- MODULE Spec2Model ----
(***************************************************************************)
(* Model of src/app-2.py: the YOLODetectionSystem object, its Inspection   *)
(* Loop (generate_frames, run by daemon threads) and the three Socket.IO   *)
(* command handlers that drive start_detection / stop_detection /          *)
(* restart_detection.                                                      *)
(*                                                                         *)
(* Threads.  Every command handler invocation is a thread of its own       *)
(* (Socket.IO dispatches handlers concurrently), identified by a command   *)
(* number c in Cmds.  A worker thread is identified by the number of the   *)
(* command whose start_detection spawned it, and a capture handle by the   *)
(* number of the command whose initialize_camera created it.               *)
(*                                                                         *)
(* Granularity.  One action is one read or write of a shared attribute of  *)
(* the detector object; steps that touch only thread-local data are folded *)
(* into the shared step that precedes them.                                *)
(*                                                                         *)
(* Time.  time.time() is the variable now, in whole seconds; it starts     *)
(* later than DEBOUNCE_SECONDS after the epoch, as any real clock does.    *)
(***************************************************************************)
EXTENDS Integers, FiniteSets, Sequences, TLC

\* ---------------------------------------------------------------- bounds
MaxCmds == 2        \* command handler invocations in one run
MaxTicks == 4       \* seconds the clock advances in one run
MaxFrames == 2      \* frames the capture devices deliver in one run

\* ------------------------------------------------------ program constants
DEBOUNCE_SECONDS == 3   \* update_statistics: current_time - last > 3.0
FPS_WINDOW == 1         \* calculate_fps: current_time - fps_start_time >= 1.0

Cmds == 1..MaxCmds
None == 0               \* self.camera = None
NoAttr == -1            \* the attribute last_detection_time does not exist yet
StartTime == DEBOUNCE_SECONDS + 1
MaxTime == StartTime + MaxTicks

VARIABLES
    \* --- the detector object (YOLODetectionSystem.__init__)
    camera,               \* self.camera: None or a handle
    is_running,           \* self.is_running
    current_frame,        \* self.current_frame: "none", "raw" or "annotated"
    stats,                \* self.detection_results['stats']
    fps,                  \* self.detection_results['fps']
    fps_counter,          \* self.fps_counter
    fps_start_time,       \* self.fps_start_time
    last_detection_time,  \* self.last_detection_time (NoAttr until first set)
    \* --- the environment
    now,                  \* time.time()
    frames,               \* frames delivered by read() so far
    hstate,               \* per handle: "none", "live" or "released"
    open_result,          \* per command: what cv2.VideoCapture(0) did
    \* --- command handler threads
    op,                   \* per command: "none", "start", "stop", "restart"
    hpc,                  \* per command: position in the handler
    system_status,        \* per command: is_running of the system_status it emitted
    \* --- worker threads (generate_frames)
    wpc,                  \* per worker: position in generate_frames
    has_sg,               \* per worker: local has_sg
    current_time,         \* per worker: local current_time
    loaded,               \* per worker: the value loaded by the += in progress
    cleared               \* per worker: is_running was set False while it was active

vars == <<camera, is_running, current_frame, stats, fps, fps_counter,
          fps_start_time, last_detection_time, now, frames, hstate, open_result,
          op, hpc, system_status, wpc, has_sg, current_time, loaded, cleared>>

detectorVars == <<camera, is_running, current_frame, stats, fps, fps_counter,
                  fps_start_time, last_detection_time>>
statVars == <<stats, last_detection_time>>
fpsVars == <<fps, fps_counter, fps_start_time>>
cmdVars == <<op, hpc, system_status, open_result>>
workerVars == <<wpc, has_sg, current_time, loaded>>

\* A worker thread exists and has not left generate_frames.
Active(w) == wpc[w] \notin {"none", "exit_flag", "exit_read", "crashed"}

ActiveWorkers == {w \in Cmds : Active(w)}

Init ==
    /\ camera = None
    /\ is_running = FALSE
    /\ current_frame = "none"
    /\ stats = [total |-> 0, pass |-> 0, ng |-> 0]
    /\ fps = 0
    /\ fps_counter = 0
    /\ fps_start_time = StartTime
    /\ last_detection_time = NoAttr
    /\ now = StartTime
    /\ frames = 0
    /\ hstate = [h \in Cmds |-> "none"]
    /\ open_result = [c \in Cmds |-> "none"]
    /\ op = [c \in Cmds |-> "none"]
    /\ hpc = [c \in Cmds |-> "idle"]
    /\ system_status = [c \in Cmds |-> "none"]
    /\ wpc = [w \in Cmds |-> "none"]
    /\ has_sg = [w \in Cmds |-> FALSE]
    /\ current_time = [w \in Cmds |-> 0]
    /\ loaded = [w \in Cmds |-> 0]
    /\ cleared = [w \in Cmds |-> FALSE]

\* The instants at which the clock is observed, as seconds since StartTime:
\* no time has passed, exactly the debounce interval has passed, more than
\* the debounce interval has passed.  They decide the comparisons of lines 92
\* and 104 either way.
Instants == {0, DEBOUNCE_SECONDS, MaxTicks}

\* time.time(): a value not before any value returned earlier.  The clock
\* is observed only by these calls, so it advances when it is read.
Clock == {t \in now..MaxTime : t - StartTime \in Instants}

\* Commands arrive in the order of their numbers.
Arrives(c) == hpc[c] = "idle" /\ \A d \in Cmds : d < c => hpc[d] # "idle"

\* ------------------------------------------------------------------------
\* Lifecycle Controller: start_detection / stop_detection / restart_detection
\* and the handlers that call them (handle_start_detection,
\* handle_stop_detection, handle_restart_system).
\* ------------------------------------------------------------------------

\* A start_detection begins: on a fresh start command, or in a restart after
\* its settle delay.
StartBegins(c) ==
    \/ Arrives(c)
    \/ hpc[c] = "rs_sleep" /\ op[c] = "restart"

StartOp(c) == IF hpc[c] = "idle" THEN "start" ELSE op[c]

\* The handler's emit after start_detection / restart_detection returned r.
EmitStartResult(c, r) ==
    /\ system_status' = [system_status EXCEPT ![c] = IF r THEN "true" ELSE "false"]
    /\ hpc' = [hpc EXCEPT ![c] = "done"]

\* initialize_camera, line 34: self.camera = cv2.VideoCapture(camera_index).
\* The constructor yields an opened capture, an unopened capture (the device
\* is missing or busy: no exception, isOpened() is False), or raises; in the
\* last case the except clause returns False and start_detection returns
\* False.
OpenCamera(c) ==
    /\ StartBegins(c)
    /\ op' = [op EXCEPT ![c] = StartOp(c)]
    /\ \E out \in {"opened", "unopened", "raise"} :
        /\ open_result' = [open_result EXCEPT ![c] = out]
        /\ IF out = "raise"
           THEN /\ EmitStartResult(c, FALSE)
                /\ UNCHANGED <<camera, hstate>>
           ELSE /\ camera' = c
                /\ hstate' = [hstate EXCEPT ![c] = "live"]
                /\ hpc' = [hpc EXCEPT ![c] = "ic_set"]
                /\ UNCHANGED system_status
    /\ UNCHANGED <<is_running, current_frame, statVars, fpsVars, now, frames,
                   workerVars, cleared>>

\* initialize_camera, lines 35-37: self.camera.set(...) three times.  Each
\* call loads self.camera again; on None the AttributeError is caught by the
\* except clause and initialize_camera returns False.  The three calls have
\* no effect on the modelled state and are one step.
ConfigureCamera(c) ==
    /\ hpc[c] = "ic_set"
    /\ IF camera = None
       THEN EmitStartResult(c, FALSE)
       ELSE /\ hpc' = [hpc EXCEPT ![c] = "sd_flag"]
            /\ UNCHANGED system_status
    /\ UNCHANGED <<detectorVars, now, frames, hstate, op, open_result, workerVars,
                   cleared>>

\* start_detection, line 161: self.is_running = True.
SetRunning(c) ==
    /\ hpc[c] = "sd_flag"
    /\ is_running' = TRUE
    /\ hpc' = [hpc EXCEPT ![c] = "sd_thread"]
    /\ UNCHANGED <<camera, current_frame, statVars, fpsVars, now, frames, hstate, op,
                   system_status, open_result, workerVars, cleared>>

\* start_detection, lines 162-163: the worker thread is started, True is
\* returned and the handler emits system_status {is_running: True}.
SpawnWorker(c) ==
    /\ hpc[c] = "sd_thread"
    /\ wpc' = [wpc EXCEPT ![c] = "w_running"]
    /\ EmitStartResult(c, TRUE)
    /\ UNCHANGED <<detectorVars, now, frames, hstate, op, open_result, has_sg,
                   current_time, loaded, cleared>>

\* stop_detection returns: handle_stop_detection emits {is_running: False};
\* restart_detection goes on to time.sleep(0.5).
StopReturns(c, o) ==
    IF o = "stop"
    THEN /\ system_status' = [system_status EXCEPT ![c] = "false"]
         /\ hpc' = [hpc EXCEPT ![c] = "done"]
    ELSE /\ hpc' = [hpc EXCEPT ![c] = "rs_sleep"]
         /\ UNCHANGED system_status

\* ClearRunning with the flag toggled instead of cleared.
ClearRunningToggles(c) ==
    /\ Arrives(c)
    /\ \E o \in {"stop", "restart"} : op' = [op EXCEPT ![c] = o]
    /\ is_running' = ~is_running
    /\ cleared' = [w \in Cmds |-> cleared[w] \/ Active(w)]
    /\ hpc' = [hpc EXCEPT ![c] = "st_test"]
    /\ UNCHANGED <<camera, current_frame, statVars, fpsVars, now, frames, hstate,
                   system_status, open_result, workerVars>>

\* stop_detection, line 168: self.is_running = False.  First step of a stop
\* or restart command.
ClearRunning(c) ==
    /\ Arrives(c)
    /\ \E o \in {"stop", "restart"} : op' = [op EXCEPT ![c] = o]
    /\ is_running' = FALSE
    /\ cleared' = [w \in Cmds |-> cleared[w] \/ Active(w)]
    /\ hpc' = [hpc EXCEPT ![c] = "st_test"]
    /\ UNCHANGED <<camera, current_frame, statVars, fpsVars, now, frames, hstate,
                   system_status, open_result, workerVars>>

\* stop_detection, line 169: if self.camera.
TestCamera(c) ==
    /\ hpc[c] = "st_test"
    /\ IF camera # None
       THEN /\ hpc' = [hpc EXCEPT ![c] = "st_release"]
            /\ UNCHANGED system_status
       ELSE StopReturns(c, op[c])
    /\ UNCHANGED <<detectorVars, now, frames, hstate, op, open_result, workerVars,
                   cleared>>

\* stop_detection, line 170: self.camera.release().  self.camera is loaded
\* again; on None the AttributeError leaves the handler (nothing is emitted).
ReleaseCamera(c) ==
    /\ hpc[c] = "st_release"
    /\ IF camera = None
       THEN /\ hpc' = [hpc EXCEPT ![c] = "error"]
            /\ UNCHANGED hstate
       ELSE /\ hstate' = [hstate EXCEPT ![camera] = "released"]
            /\ hpc' = [hpc EXCEPT ![c] = "st_none"]
    /\ UNCHANGED <<detectorVars, now, frames, op, system_status, open_result,
                   workerVars, cleared>>

\* ClearCamera with the statistics reset as well.
ClearCameraResetsStats(c) ==
    /\ hpc[c] = "st_none"
    /\ camera' = None
    /\ StopReturns(c, op[c])
    /\ stats' = [total |-> 0, pass |-> 0, ng |-> 0]
    /\ UNCHANGED <<is_running, current_frame, last_detection_time, fpsVars, now,
                   frames, hstate, op, open_result, workerVars, cleared>>

\* stop_detection, line 171: self.camera = None.
ClearCamera(c) ==
    /\ hpc[c] = "st_none"
    /\ camera' = None
    /\ StopReturns(c, op[c])
    /\ UNCHANGED <<is_running, current_frame, statVars, fpsVars, now, frames, hstate,
                   op, open_result, workerVars, cleared>>

start_detection(c) ==
    \/ OpenCamera(c)
    \/ ConfigureCamera(c)
    \/ SetRunning(c)
    \/ SpawnWorker(c)

stop_detection(c) ==
    \/ ClearRunning(c)
    \/ TestCamera(c)
    \/ ReleaseCamera(c)
    \/ ClearCamera(c)

\* A step of command c's handler.
Command(c) == start_detection(c) \/ stop_detection(c)

\* ------------------------------------------------------------------------
\* Inspection Loop: generate_frames, run by worker thread w.
\* ------------------------------------------------------------------------

WorkerAt(w, at, to) ==
    /\ wpc[w] = at
    /\ wpc' = [wpc EXCEPT ![w] = to]

\* Line 111, first operand of the loop test: self.is_running.
WhileRunning(w) ==
    /\ wpc[w] = "w_running"
    /\ wpc' = [wpc EXCEPT ![w] = IF is_running THEN "w_camera" ELSE "exit_flag"]
    /\ UNCHANGED <<detectorVars, now, frames, hstate, cmdVars, has_sg, current_time, loaded,
                   cleared>>

\* Line 111, second operand: self.camera is not None.
WhileCamera(w) ==
    /\ wpc[w] = "w_camera"
    /\ wpc' = [wpc EXCEPT ![w] = IF camera # None THEN "w_read" ELSE "exit_flag"]
    /\ UNCHANGED <<detectorVars, now, frames, hstate, cmdVars, has_sg, current_time, loaded,
                   cleared>>

\* A read() on handle h delivers a frame only from an opened, unreleased
\* capture, and may fail even then.
CanDeliver(h) == hstate[h] = "live" /\ open_result[h] = "opened"

\* Lines 112-118: ret, frame = self.camera.read(); if not ret: break; then
\* self.model(frame) and process_detections.  self.camera is loaded again:
\* on None the AttributeError is raised outside the try block and ends the
\* thread.  The model call raises, or yields detections with or without the
\* defect class 'sg'.
ReadFrame(w) ==
    /\ wpc[w] = "w_read"
    /\ IF camera = None
       THEN /\ wpc' = [wpc EXCEPT ![w] = "crashed"]
            /\ UNCHANGED <<has_sg, frames>>
       ELSE \E ret \in (IF CanDeliver(camera) /\ frames < MaxFrames
                        THEN BOOLEAN ELSE {FALSE}) :
            IF ~ret
            THEN /\ wpc' = [wpc EXCEPT ![w] = "exit_read"]
                 /\ UNCHANGED <<has_sg, frames>>
            ELSE /\ frames' = frames + 1
                 /\ \E infer \in {"raise", "sg", "clean"} :
                     IF infer = "raise"
                     THEN /\ wpc' = [wpc EXCEPT ![w] = "w_except"]
                          /\ UNCHANGED has_sg
                     ELSE /\ wpc' = [wpc EXCEPT ![w] = "us_time"]
                          /\ has_sg' = [has_sg EXCEPT ![w] = (infer = "sg")]
    /\ UNCHANGED <<detectorVars, now, hstate, cmdVars, current_time, loaded, cleared>>

\* A handler that ends the thread instead of going on with the loop.
InferenceFaultFatal(w) ==
    /\ WorkerAt(w, "w_except", "crashed")
    /\ current_frame' = "raw"
    /\ UNCHANGED <<camera, is_running, statVars, fpsVars, now, frames, hstate, cmdVars,
                   has_sg, current_time, loaded, cleared>>

\* Lines 152-154: except Exception: self.current_frame = frame.copy(); then
\* the sleep and the next iteration.
InferenceFault(w) ==
    /\ WorkerAt(w, "w_except", "w_running")
    /\ current_frame' = "raw"
    /\ UNCHANGED <<camera, is_running, statVars, fpsVars, now, frames, hstate, cmdVars,
                   has_sg, current_time, loaded, cleared>>

\* update_statistics, lines 88-89: current_time = time.time();
\* if not hasattr(self, 'last_detection_time').
UsTime(w) ==
    /\ wpc[w] = "us_time"
    /\ \E t \in Clock :
        /\ now' = t
        /\ current_time' = [current_time EXCEPT ![w] = t]
    /\ wpc' = [wpc EXCEPT ![w] =
                  IF last_detection_time = NoAttr THEN "us_init" ELSE "us_check"]
    /\ UNCHANGED <<detectorVars, frames, hstate, cmdVars, has_sg, loaded, cleared>>

\* An initialisation that takes the current time as the prior event time.
UsInitNow(w) ==
    /\ WorkerAt(w, "us_init", "us_check")
    /\ last_detection_time' = current_time[w]
    /\ UNCHANGED <<camera, is_running, current_frame, stats, fpsVars, now, frames,
                   hstate, cmdVars, has_sg, current_time, loaded, cleared>>

\* update_statistics, line 90: self.last_detection_time = 0.
UsInit(w) ==
    /\ WorkerAt(w, "us_init", "us_check")
    /\ last_detection_time' = 0
    /\ UNCHANGED <<camera, is_running, current_frame, stats, fpsVars, now, frames,
                   hstate, cmdVars, has_sg, current_time, loaded, cleared>>

\* The debounce test of line 92.
Elapsed(t, last) == t - last > DEBOUNCE_SECONDS

\* update_statistics, line 92: if current_time - self.last_detection_time > 3.0.
\* When the test fails update_statistics returns and its local is gone.
UsCheck(w) ==
    /\ wpc[w] = "us_check"
    /\ IF Elapsed(current_time[w], last_detection_time)
       THEN /\ wpc' = [wpc EXCEPT ![w] = "us_total"]
            /\ UNCHANGED current_time
       ELSE /\ wpc' = [wpc EXCEPT ![w] = "cf_inc"]
            /\ current_time' = [current_time EXCEPT ![w] = 0]
    /\ UNCHANGED <<detectorVars, now, frames, hstate, cmdVars, has_sg, loaded, cleared>>

\* A statement x += 1 on a shared attribute is a load and a store; another
\* thread may run between the two.
LoadsAt(w, at, to, value) ==
    /\ WorkerAt(w, at, to)
    /\ loaded' = [loaded EXCEPT ![w] = value]

StoresAt(w, at, to) ==
    /\ WorkerAt(w, at, to)
    /\ loaded' = [loaded EXCEPT ![w] = 0]

\* update_statistics, line 93: stats['total'] += 1, the load.
UsTotalLoad(w) ==
    /\ LoadsAt(w, "us_total", "us_total_st", stats.total)
    /\ UNCHANGED <<detectorVars, now, frames, hstate, cmdVars, has_sg,
                   current_time, cleared>>

\* update_statistics, line 93: stats['total'] += 1, the store.
UsTotal(w) ==
    /\ StoresAt(w, "us_total_st", "us_verdict")
    /\ stats' = [stats EXCEPT !.total = loaded[w] + 1]
    /\ UNCHANGED <<camera, is_running, current_frame, last_detection_time,
                   fpsVars, now, frames, hstate, cmdVars, has_sg, current_time,
                   cleared>>

\* update_statistics, lines 94-97: stats['ng'] += 1 or stats['pass'] += 1,
\* the load.
UsVerdictLoad(w) ==
    /\ LoadsAt(w, "us_verdict", "us_verdict_st",
               IF has_sg[w] THEN stats.ng ELSE stats.pass)
    /\ UNCHANGED <<detectorVars, now, frames, hstate, cmdVars, has_sg,
                   current_time, cleared>>

\* update_statistics, lines 94-97: stats['ng'] += 1 or stats['pass'] += 1,
\* the store.
UsVerdict(w) ==
    /\ StoresAt(w, "us_verdict_st", "us_last")
    /\ stats' = IF has_sg[w] THEN [stats EXCEPT !.ng = loaded[w] + 1]
                             ELSE [stats EXCEPT !.pass = loaded[w] + 1]
    /\ UNCHANGED <<camera, is_running, current_frame, last_detection_time,
                   fpsVars, now, frames, hstate, cmdVars, has_sg, current_time,
                   cleared>>

\* update_statistics, line 98: self.last_detection_time = current_time.
UsLast(w) ==
    /\ WorkerAt(w, "us_last", "cf_inc")
    /\ last_detection_time' = current_time[w]
    /\ current_time' = [current_time EXCEPT ![w] = 0]
    /\ UNCHANGED <<camera, is_running, current_frame, stats, fpsVars, now,
                   frames, hstate, cmdVars, has_sg, loaded, cleared>>

\* calculate_fps, line 102: self.fps_counter += 1, the load.
CfIncLoad(w) ==
    /\ LoadsAt(w, "cf_inc", "cf_inc_st", fps_counter)
    /\ UNCHANGED <<detectorVars, now, frames, hstate, cmdVars, has_sg,
                   current_time, cleared>>

\* calculate_fps, line 102: self.fps_counter += 1, the store.
CfInc(w) ==
    /\ StoresAt(w, "cf_inc_st", "cf_time")
    /\ fps_counter' = loaded[w] + 1
    /\ UNCHANGED <<camera, is_running, current_frame, statVars, fps,
                   fps_start_time, now, frames, hstate, cmdVars, has_sg,
                   current_time, cleared>>

\* calculate_fps, lines 103-104: current_time = time.time();
\* if current_time - self.fps_start_time >= 1.0.
CfTime(w) ==
    /\ wpc[w] = "cf_time"
    /\ \E t \in Clock :
        /\ now' = t
        /\ IF t - fps_start_time >= FPS_WINDOW
           THEN /\ wpc' = [wpc EXCEPT ![w] = "cf_fps"]
                /\ current_time' = [current_time EXCEPT ![w] = t]
           ELSE /\ wpc' = [wpc EXCEPT ![w] = "w_frame"]
                /\ current_time' = [current_time EXCEPT ![w] = 0]
    /\ UNCHANGED <<detectorVars, frames, hstate, cmdVars, has_sg, loaded, cleared>>

\* calculate_fps, line 105: detection_results['fps'] = self.fps_counter.
CfFps(w) ==
    /\ WorkerAt(w, "cf_fps", "cf_reset")
    /\ fps' = fps_counter
    /\ UNCHANGED <<camera, is_running, current_frame, statVars, fps_counter,
                   fps_start_time, now, frames, hstate, cmdVars, has_sg, current_time, loaded,
                   cleared>>

\* calculate_fps, line 106: self.fps_counter = 0.
CfReset(w) ==
    /\ WorkerAt(w, "cf_reset", "cf_start")
    /\ fps_counter' = 0
    /\ UNCHANGED <<camera, is_running, current_frame, statVars, fps,
                   fps_start_time, now, frames, hstate, cmdVars, has_sg, current_time, loaded,
                   cleared>>

\* calculate_fps, line 107: self.fps_start_time = current_time.
CfStart(w) ==
    /\ WorkerAt(w, "cf_start", "w_frame")
    /\ fps_start_time' = current_time[w]
    /\ current_time' = [current_time EXCEPT ![w] = 0]
    /\ UNCHANGED <<camera, is_running, current_frame, statVars, fps,
                   fps_counter, now, frames, hstate, cmdVars, has_sg, loaded, cleared>>

\* Lines 133-137: self.current_frame = processed_frame.copy();
\* ret, buffer = cv2.imencode(...).  The encoding succeeds (the worker is at
\* the emits of the if ret block) or fails (it is past the block).
StoreFrame(w) ==
    /\ wpc[w] = "w_frame"
    /\ current_frame' = "annotated"
    /\ \E ret \in BOOLEAN :
        wpc' = [wpc EXCEPT ![w] = IF ret THEN "w_emit" ELSE "w_skip"]
    /\ UNCHANGED <<camera, is_running, statVars, fpsVars, now, frames, hstate,
                   cmdVars, has_sg, current_time, loaded, cleared>>

\* An if ret that enters the block of the emits although ret is false.
SkipEmitPushes(w) ==
    /\ WorkerAt(w, "w_skip", "w_emit")
    /\ has_sg' = [has_sg EXCEPT ![w] = FALSE]
    /\ UNCHANGED <<detectorVars, now, frames, hstate, cmdVars, current_time,
                   loaded, cleared>>

\* Lines 138, 156: if ret is false; the sleep and the next iteration.
SkipEmit(w) ==
    /\ WorkerAt(w, "w_skip", "w_running")
    /\ has_sg' = [has_sg EXCEPT ![w] = FALSE]
    /\ UNCHANGED <<detectorVars, now, frames, hstate, cmdVars, current_time,
                   loaded, cleared>>

Max1(n) == IF n < 1 THEN 1 ELSE n

\* round(n / d, 0) for integers n >= 0, d > 0: to nearest, ties to even.
RoundDiv(n, d) ==
    LET q == n \div d
        r == n % d
    IN  IF 2 * r < d THEN q
        ELSE IF 2 * r > d THEN q + 1
        ELSE IF q % 2 = 0 THEN q ELSE q + 1

\* Lines 147-148: round(ng / max(1, total) * 100, 1), in tenths of a percent.
NgRate(ng, total) == RoundDiv(ng * 1000, Max1(total))

\* Lines 142-149: the detection_result event worker w pushes when it emits.
DetectionResult(w) ==
    [status |-> IF has_sg[w] THEN "NG" ELSE "PASS",
     pass_count |-> stats.pass,
     ng_count |-> stats.ng,
     total_count |-> stats.total,
     ng_rate |-> NgRate(stats.ng, stats.total)]

\* Lines 142-150: socketio.emit('detection_result', DetectionResult(w)) and
\* socketio.emit('video_frame', ...); then the sleep and the next iteration.
\* The events leave the process; nothing of them is kept in the detector.
EmitResult(w) ==
    /\ WorkerAt(w, "w_emit", "w_running")
    /\ has_sg' = [has_sg EXCEPT ![w] = FALSE]
    /\ UNCHANGED <<detectorVars, now, frames, hstate, cmdVars, current_time, loaded, cleared>>

update_statistics(w) ==
    \/ UsTime(w)
    \/ UsInit(w)
    \/ UsCheck(w)
    \/ UsTotalLoad(w)
    \/ UsTotal(w)
    \/ UsVerdictLoad(w)
    \/ UsVerdict(w)
    \/ UsLast(w)

calculate_fps(w) ==
    \/ CfIncLoad(w)
    \/ CfInc(w)
    \/ CfTime(w)
    \/ CfFps(w)
    \/ CfReset(w)
    \/ CfStart(w)

generate_frames(w) ==
    \/ WhileRunning(w)
    \/ WhileCamera(w)
    \/ ReadFrame(w)
    \/ InferenceFault(w)
    \/ update_statistics(w)
    \/ calculate_fps(w)
    \/ StoreFrame(w)
    \/ SkipEmit(w)
    \/ EmitResult(w)

Next ==
    \/ \E c \in Cmds : Command(c)
    \/ \E w \in Cmds : generate_frames(w)

Spec == Init /\ [][Next]_vars

\* ------------------------------------------------------------------------
\* Properties
\* ------------------------------------------------------------------------

\* Command c's handler takes a step.
CommandStep(c) == hpc'[c] # hpc[c]

\* start_detection is called by command c (its first step is being taken).
StartCalled(c) == hpc[c] = "idle" /\ op'[c] = "start"

\* A step of stop_detection called by a stop command c.
StopStep(c) == CommandStep(c) /\ op'[c] = "stop"

\* Worker w performs the self.camera.read() of line 112.
ReadStep(w) == wpc[w] = "w_read" /\ wpc'[w] # "w_read"

\* Worker w returns from update_statistics (lines 92 or 98).
UpdateReturns(w) == wpc[w] \in {"us_check", "us_last"} /\ wpc'[w] = "cf_inc"

\* Worker w commits a production event (line 93).
Commits(w) == wpc[w] = "us_total_st" /\ wpc'[w] = "us_verdict"

\* Worker w pushes its detection_result (line 142).
Pushes(w) == wpc[w] = "w_emit" /\ wpc'[w] = "w_running"

NoCommandInProgress == \A c \in Cmds : hpc[c] \in {"idle", "done", "error"}

\* C1: at most one Inspection Loop worker (a thread inside generate_frames)
\* is active in every reachable state.
C1_AtMostOneWorker == Cardinality(ActiveWorkers) <= 1

\* C2: start_detection called while is_running is set is a no-op: it returns
\* the running state at once and leaves the flag, the capture handle, the
\* handles opened and the workers as they were.
C2_StartWhileRunningIsNoop ==
    [][\A c \in Cmds :
          (StartCalled(c) /\ is_running) =>
              /\ UNCHANGED <<is_running, camera, hstate, wpc>>
              /\ hpc'[c] = "done"
              /\ system_status'[c] = "true"]_vars

\* C3: when the capture device fails to open, start_detection reports
\* failure, does not set the running flag and spawns no worker.
C3_OpenFailureReported ==
    \A c \in Cmds :
        open_result[c] \in {"unopened", "raise"} =>
            /\ hpc[c] \notin {"sd_flag", "sd_thread"}
            /\ wpc[c] = "none"
            /\ system_status[c] # "true"

\* C4: every camera.read() of a worker is performed on a capture handle that
\* has not been released or replaced by None.
C4_ReadOnUnreleasedHandle ==
    [][\A w \in Cmds :
          ReadStep(w) => (camera # None /\ hstate[camera] = "live")]_vars

\* C5: an update_statistics call whose time is within 3 seconds of the last
\* committed production event does not change total, so two committed events
\* are more than 3 seconds apart.
C5_OneEventPerWindow ==
    [][\A w \in Cmds :
          Commits(w) => Elapsed(current_time[w], last_detection_time)]_vars

\* C6: total = pass + ng after every completed update_statistics call and in
\* every detection_result event pushed.
C6_TotalIsPassPlusNg ==
    [][\A w \in Cmds :
          /\ UpdateReturns(w) => stats'.total = stats'.pass + stats'.ng
          /\ Pushes(w) =>
                DetectionResult(w).total_count =
                    DetectionResult(w).pass_count + DetectionResult(w).ng_count]_vars

\* C7: a worker that was active when stop_detection cleared the running flag
\* does not go on iterating: at its next loop test it leaves the loop.
C7_ClearedWorkerExits ==
    [][\A w \in Cmds :
          (cleared[w] /\ wpc[w] = "w_running") =>
              wpc'[w] \in {"w_running", "exit_flag"}]_vars

\* C8: after a worker has left the loop on a read failure the system is
\* Stopped: with no worker active and no command in progress the running flag
\* is false.
C8_ReadFailureStops ==
    ((\E w \in Cmds : wpc[w] = "exit_read")
        /\ ActiveWorkers = {} /\ NoCommandInProgress) => ~is_running

\* C9: stop_detection called while the system is stopped (flag false, no
\* capture handle) changes nothing: the flag, the handle, the handles' states,
\* the counters and the workers stay as they are, on the first call and on
\* any repetition.
C9_StopWhenStoppedIsNoop ==
    [][\A c \in Cmds :
          (StopStep(c) /\ ~is_running /\ camera = None) =>
              UNCHANGED <<is_running, camera, hstate, stats,
                          last_detection_time, wpc>>]_vars

\* Two stop commands have completed and nothing else was ever called: the
\* second ran on a stopped system.
C9_Witness ==
    \E c, d \in Cmds :
        /\ c # d
        /\ op[c] = "stop" /\ hpc[c] = "done" /\ system_status[c] = "false"
        /\ op[d] = "stop" /\ hpc[d] = "done" /\ system_status[d] = "false"
        /\ \A e \in Cmds : op[e] \in {"none", "stop"}
        /\ ~is_running /\ camera = None

\* C10: no step of start_detection, stop_detection or restart_detection,
\* successful or failed, changes total, pass, ng or the debounce timestamp.
C10_CommandsKeepStatistics ==
    [][\A c \in Cmds : CommandStep(c) => UNCHANGED statVars]_vars

\* A start and a stop were called and have completed; the worker of the start
\* committed an event, left on a read failure before the flag was cleared,
\* and the stop then ran (the flag is false) with the counters still there.
C10_Witness ==
    \E c, d \in Cmds :
        /\ op[c] = "start" /\ hpc[c] = "done"
        /\ op[d] = "stop" /\ hpc[d] = "done"
        /\ \A e \in Cmds \ {c, d} : op[e] = "none"
        /\ wpc[c] = "exit_read" /\ ~cleared[c]
        /\ ~is_running
        /\ stats.total > 0
        /\ last_detection_time > 0

\* C11: stop_detection releases the capture handle only after the worker
\* started on it has exited: in no reachable state is a handle released while
\* the worker started on it (the worker of the command that opened it) is
\* still inside generate_frames.
C11_ReleaseAfterWorkerExit ==
    \A h \in Cmds : hstate[h] = "released" => ~Active(h)

\* The detection model raises in worker w's iteration (line 117).
ModelRaises(w) == wpc[w] = "w_read" /\ wpc'[w] = "w_except"

\* Worker w leaves the exception handler of lines 152-154.
HandlerReturns(w) == wpc[w] = "w_except" /\ wpc'[w] # "w_except"

\* C12: an exception of the detection model is a per-frame recoverable
\* fault: the iteration in which it is raised changes neither the running
\* flag nor the counters and the debounce timestamp, the raw frame becomes
\* the current frame, and the worker goes on to the next loop test instead of
\* terminating.
C12_ModelFaultIsRecoverable ==
    [][\A w \in Cmds :
          /\ ModelRaises(w) => UNCHANGED <<is_running, statVars>>
          /\ HandlerReturns(w) =>
                /\ UNCHANGED <<is_running, statVars>>
                /\ current_frame' = "raw"
                /\ wpc'[w] = "w_running"
                /\ Active(w)']_vars

\* The only frame delivered made the model raise; the worker, the only one,
\* is in its next iteration with the raw frame as current frame, the flag
\* set and no event counted.
C12_Witness ==
    \E w \in Cmds :
        /\ wpc[w] \in {"w_camera", "w_read"}
        /\ \A v \in Cmds \ {w} : wpc[v] = "none"
        /\ frames = 1
        /\ current_frame = "raw"
        /\ is_running
        /\ stats.total = 0

\* cv2.imencode fails in worker w's iteration (line 137, ret false).
EncodeFails(w) == wpc[w] = "w_frame" /\ wpc'[w] = "w_skip"

\* Worker w calls cv2.imencode only when update_statistics and then
\* calculate_fps have returned in the same iteration (lines 126-137).
EncodeAfterUpdate(w) ==
    /\ (wpc'[w] = "w_frame" /\ wpc[w] # "w_frame") =>
            wpc[w] \in {"cf_time", "cf_start"}
    /\ (wpc'[w] = "cf_inc" /\ wpc[w] # "cf_inc") => UpdateReturns(w)

\* C13: when the frame encoding fails, the worker pushes no video_frame (and
\* no detection_result) in that iteration and goes to the next loop test; the
\* statistics update of the iteration, made before the encoding, is left as
\* applied.
C13_EncodeFailureSkipsPush ==
    [][\A w \in Cmds :
          /\ EncodeAfterUpdate(w)
          /\ EncodeFails(w) => UNCHANGED statVars
          /\ (wpc[w] = "w_skip" /\ wpc'[w] # "w_skip") =>
                /\ ~Pushes(w)
                /\ wpc'[w] = "w_running"
                /\ UNCHANGED statVars]_vars

\* The only frame delivered was counted as an event by the only worker, and
\* its encoding has failed.
C13_Witness ==
    \E w \in Cmds :
        /\ wpc[w] = "w_skip"
        /\ \A v \in Cmds \ {w} : wpc[v] = "none"
        /\ frames = 1
        /\ stats.total = 1
        /\ last_detection_time > 0

\* Worker w completes the counter update of lines 94-97.
CountsVerdict(w) == wpc[w] = "us_verdict_st" /\ wpc'[w] = "us_last"

\* Worker w completes the assignment of line 98.
StampsEvent(w) == wpc[w] = "us_last" /\ wpc'[w] = "cf_inc"

\* C14: a committed production event increases total by exactly 1 and
\* leaves ng and pass alone at line 93, increases ng by exactly 1 when the
\* frame has a detection of class 'sg' and pass by exactly 1 otherwise, the
\* other two counters unchanged, at lines 94-97, and sets the debounce
\* timestamp to the time read at line 88 at line 98.
C14_EventCountsOnce ==
    [][\A w \in Cmds :
          /\ Commits(w) =>
                stats' = [stats EXCEPT !.total = stats.total + 1]
          /\ CountsVerdict(w) =>
                stats' = IF has_sg[w]
                         THEN [stats EXCEPT !.ng = stats.ng + 1]
                         ELSE [stats EXCEPT !.pass = stats.pass + 1]
          /\ StampsEvent(w) => last_detection_time' = current_time[w]]_vars

\* Worker w evaluates the debounce test of line 92.
TestsDebounce(w) == wpc[w] = "us_check" /\ wpc'[w] # "us_check"

\* C15: the first update_statistics call after process start, that is a call
\* whose debounce test runs while no production event has been counted yet,
\* always commits: it goes on to line 93, with or without a defect in the
\* frame.
C15_FirstCallCommits ==
    [][\A w \in Cmds :
          (TestsDebounce(w) /\ stats.total = 0) => wpc'[w] = "us_total"]_vars

\* The only worker has counted the only frame delivered, its first call of
\* update_statistics, as an NG event and is about to set the timestamp.
C15_Witness ==
    \E w \in Cmds :
        /\ wpc[w] = "us_last"
        /\ \A v \in Cmds \ {w} : wpc[v] = "none"
        /\ frames = 1
        /\ has_sg[w]
        /\ stats = [total |-> 1, pass |-> 0, ng |-> 1]
        /\ last_detection_time = 0

\* C16: the ng_rate of every detection_result pushed is ng / max(1, total)
\* * 100 rounded to one decimal (here in tenths of a percent): it is 0 when
\* total is 0, it is 25.0 for ng = 1 and total = 4, and it always lies
\* between 0 and 100.
C16_NgRateInRange ==
    [][\A w \in Cmds :
          Pushes(w) =>
              LET r == DetectionResult(w)
              IN  /\ r.ng_rate = RoundDiv(r.ng_count * 1000, Max1(r.total_count))
                  /\ r.total_count = 0 => r.ng_rate = 0
                  /\ NgRate(1, 4) = 250
                  /\ r.ng_rate \in 0..1000]_vars

\* Worker w completes the counter update of line 102.
CountsFrame(w) == wpc[w] = "cf_inc_st" /\ wpc'[w] = "cf_time"

\* Worker w takes the snapshot of line 105.
Snapshots(w) == wpc[w] = "cf_fps" /\ wpc'[w] = "cf_reset"

\* C17: every calculate_fps call increases the frame counter by 1; a call
\* that reads the clock at least 1 second after the window start, and no
\* other call, sets fps to the frames counted, resets the counter to zero and
\* restarts the window at the time read; no other step of a worker changes
\* fps.
C17_FpsPerWindow ==
    [][\A w \in Cmds :
          /\ CountsFrame(w) => fps_counter' = fps_counter + 1
          /\ (wpc[w] = "cf_time" /\ wpc'[w] # "cf_time") =>
                (wpc'[w] = "cf_fps" <=> now' - fps_start_time >= FPS_WINDOW)
          /\ Snapshots(w) => fps' = fps_counter
          /\ (wpc[w] = "cf_reset" /\ wpc'[w] # "cf_reset") => fps_counter' = 0
          /\ (wpc[w] = "cf_start" /\ wpc'[w] # "cf_start") =>
                fps_start_time' = current_time[w]
          /\ (wpc'[w] # wpc[w] /\ ~Snapshots(w)) => fps' = fps]_vars

\* The capture handles that are open and not released.
OpenHandles == {h \in Cmds : hstate[h] = "live" /\ open_result[h] = "opened"}

\* C18: at most one capture handle is open and unreleased, and no command
\* stores a new handle in self.camera while the handle stored there has not
\* been released.
C18_OneOpenHandle ==
    [][/\ Cardinality(OpenHandles') <= 1
       /\ (camera' # camera /\ camera' # None /\ camera # None) =>
              hstate[camera] = "released"]_vars

\* The handler of command c pushes its system_status event.
PushesStatus(c) == system_status'[c] # system_status[c]

\* C19: the is_running value of the system_status event pushed for a
\* command equals the running flag at the moment the command's operation
\* returns.
C19_StatusIsTheFlag ==
    [][\A c \in Cmds :
          PushesStatus(c) => (system_status'[c] = "true" <=> is_running')]_vars

====
